---- MODULE Spec2Model ----
(***************************************************************************)
(* Model of the Neighborhood Discovery widget of                           *)
(* src/src/assets/js/google-maps.js: the place-details cache, the          *)
(* fetcher with its rate-limit retries, and the side panel that uses it.   *)
(*                                                                         *)
(* JavaScript runs one handler at a time, so every action below is one     *)
(* whole task: a user event, a response of the places service, or a        *)
(* retry timer firing.  Callbacks that the code invokes synchronously are  *)
(* part of the action that invokes them.  Handlers are written as          *)
(* operators over a record s of the widget's state, so that they can call  *)
(* each other the way the code does.                                       *)
(***************************************************************************)
EXTENDS Integers, Sequences, FiniteSets, TLC

VARIABLES
  places,                         \* widget.places (configuration.pois)
  placeIdsToDetails,              \* Map placeId -> Place object
  placeIdsToAutocompleteResults,  \* Map placeId -> Autocomplete result
  calls,                          \* one closure per fetchPlaceDetails call
  batches,                        \* one closure per showNextPlaces call
  selectedPlaceId,
  detailsPanel,                   \* detailsPanelEl: display, and the place object
                                  \* as detailsTemplate(place) rendered it
  selectedPlaceMarker,            \* widget.selectedPlaceMarker
  nextPlaceIndex,
  showMoreButton,                 \* showMoreButtonEl: display and disabled
  placeResults,                   \* placeResultsEl: ids of the rendered items
  alerts,                         \* number of alert() dialogs the widget has shown
  bmiPage,                        \* the BMI form, its two result elements, and
                                  \* the alert() dialog that is open, if any
  weekday_text,                   \* openingHours.weekday_text given to parseDaysHours
  daysHours,                      \* the array parseDaysHours returned
  hospitalPage                    \* hospital.js: the map of the page, the
                                  \* geolocation requests, the open alert()

\* The state of the Neighborhood Discovery widget.
widgetVars == <<places, placeIdsToDetails, placeIdsToAutocompleteResults, calls,
                batches, selectedPlaceId, detailsPanel, selectedPlaceMarker,
                nextPlaceIndex, showMoreButton, placeResults, alerts>>

\* The state of the site's other scripts.
pageVars == <<bmiPage, weekday_text, daysHours, hospitalPage>>

vars == <<widgetVars, pageVars>>

\* ---------------------------------------------------------------- bounds

\* Number of fetchPlaceDetails closures a behaviour may create.
MaxCalls == 2

\* Number of closures in a behaviour of the list's batches.
MaxBatchCalls == 6

\* Number of geolocation requests that may be pending at once.
MaxPending == 3

\* Number of maps the hospital page may draw in one behaviour.
MaxMapsDrawn == 3

\* ------------------------------------------------------------- constants

ND_NUM_PLACES_INITIAL == 5
ND_NUM_PLACES_SHOW_MORE == 5

\* The retry limit of processResult (retryCount < 5).
MaxRetries == 5

\* Base delay of the backoff, in ms.
BaseDelay == 500

\* JavaScript's undefined, for place ids, positions and field lists.
Undefined == "undefined"

PlaceIds == {"p1", "p2"}

\* The places the model's user picks from the search box's predictions.
SearchablePlaceIds == {"p2"}

\* The configurations the widget is constructed with.
PoiConfigs == {<<>>, <<"p1">>}

\* The two field lists the widget asks for.
SelectFields ==
  <<"name", "types", "geometry.location", "formatted_address", "photo", "url",
    "website", "formatted_phone_number", "opening_hours",
    "rating", "user_ratings_total", "price_level", "review">>

ShowNextFields ==
  <<"name", "types", "geometry.location", "photo",
    "rating", "user_ratings_total", "price_level">>

\* google.maps.places.PlacesServiceStatus, the values the model's service gives.
OK == "OK"
OVER_QUERY_LIMIT == "OVER_QUERY_LIMIT"
Statuses == {OK, OVER_QUERY_LIMIT, "NOT_FOUND"}

\* Math.random() * 500 lies in [0, 500): its least and greatest whole values.
Jitters == {0, 499}

Range(f) == {f[x] : x \in DOMAIN f}

Has(obj, key) == key \in DOMAIN obj

RECURSIVE Pow(_, _)
\* Math.pow(base, n) for whole n >= 0.
Pow(base, n) == IF n = 0 THEN 1 ELSE base * Pow(base, n - 1)

\* ------------------------------------------------------ pure helpers

RECURSIVE initArray(_)
\* initArray(arraySize): an array of zeros.
initArray(arraySize) ==
  IF arraySize <= 0 THEN <<>> ELSE Append(initArray(arraySize - 1), 0)

\* addStarIcons(obj): obj.rating is held in tenths (45 is 4.5), so
\* Math.round(2 * rating) is (2 * tenths + 5) \div 10.
addStarIcons(obj) ==
  IF ~Has(obj, "rating") \/ obj["rating"] = 0 THEN obj
  ELSE LET starsOutOfTen == (2 * obj["rating"] + 5) \div 10
           fullStars == starsOutOfTen \div 2
           halfStars == IF starsOutOfTen % 2 # 0 THEN 1 ELSE 0
           emptyStars == 5 - fullStars - halfStars
       IN ("fullStarIcons" :> initArray(fullStars))
          @@ ("halfStarIcons" :> initArray(halfStars))
          @@ ("emptyStarIcons" :> initArray(emptyStars))
          @@ obj

\* obj.key = value, on an object whose set of properties varies.
SetProp(obj, key, value) == (key :> value) @@ obj

\* if (result.<rkey>) place.<pkey> = result.<rkey>, for a string property:
\* the empty string is falsy.
CopyString(place, result, rkey, pkey) ==
  IF Has(result, rkey) /\ result[rkey] # "" THEN SetProp(place, pkey, result[rkey])
  ELSE place

\* The same for a number: 0 is falsy.
CopyNumber(place, result, rkey, pkey) ==
  IF Has(result, rkey) /\ result[rkey] # 0 THEN SetProp(place, pkey, result[rkey])
  ELSE place

\* The merge with a price level that is written only while the place has
\* none: the first response wins.
MergeResultKeepsFirst(place, result) ==
  LET p1 == CopyString(place, result, "name", "name")
      p2 == IF Has(result, "geometry")
            THEN SetProp(p1, "coords", result["geometry"].location) ELSE p1
      p3 == CopyString(p2, result, "formatted_address", "address")
      p4 == CopyString(p3, result, "url", "url")
      p5 == CopyString(p4, result, "formatted_phone_number", "phoneNumber")
      p6 == IF Has(result, "rating") /\ result["rating"] # 0
            THEN addStarIcons(SetProp(p5, "rating", result["rating"])) ELSE p5
      p7 == CopyNumber(p6, result, "user_ratings_total", "numReviews")
      p8 == IF /\ Has(result, "price_level") /\ result["price_level"] # 0
               /\ ~Has(p7, "priceLevel")
            THEN SetProp(SetProp(p7, "priceLevel", result["price_level"]),
                         "dollarSigns", initArray(result["price_level"]))
            ELSE p7
  IN p8

\* The body of processResult for status OK, up to the fetched-fields loop:
\* the scalar attributes of a result.  The results of this model carry no
\* photos, types, website, opening_hours or reviews.
MergeResult(place, result) ==
  LET p1 == CopyString(place, result, "name", "name")
      p2 == IF Has(result, "geometry")
            THEN SetProp(p1, "coords", result["geometry"].location) ELSE p1
      p3 == CopyString(p2, result, "formatted_address", "address")
      p4 == CopyString(p3, result, "url", "url")
      p5 == CopyString(p4, result, "formatted_phone_number", "phoneNumber")
      p6 == IF Has(result, "rating") /\ result["rating"] # 0
            THEN addStarIcons(SetProp(p5, "rating", result["rating"])) ELSE p5
      p7 == CopyNumber(p6, result, "user_ratings_total", "numReviews")
      p8 == IF Has(result, "price_level") /\ result["price_level"] # 0
            THEN SetProp(SetProp(p7, "priceLevel", result["price_level"]),
                         "dollarSigns", initArray(result["price_level"]))
            ELSE p7
  IN p8

\* The set is replaced by the missing fields instead of growing by them.
MarkFetchedReplacing(place, missingFields) ==
  [place EXCEPT !.fetchedFields = Range(missingFields)]

\* for (let field of missingFields) place.fetchedFields.add(field)
MarkFetched(place, missingFields) ==
  [place EXCEPT !.fetchedFields = @ \cup Range(missingFields)]

\* No filter: every requested field counts as missing.
MissingFieldsUnfiltered(place, fields) == fields

\* The filter lets the first requested field through whether fetched or not.
MissingFieldsFirstKept(place, fields) ==
  SelectSeq(fields, LAMBDA field : \/ field \notin place.fetchedFields
                                   \/ field = Head(fields))

\* fields.filter((field) => !place.fetchedFields.has(field))
MissingFields(place, fields) ==
  SelectSeq(fields, LAMBDA field : field \notin place.fetchedFields)

\* The content of a details panel that has not been rendered yet.
NoPlace == [placeId |-> Undefined]

\* {placeId: placeId, fetchedFields: new Set(['place_id'])}
NewPlace(placeId) == [placeId |-> placeId, fetchedFields |-> {"place_id"}]

\* The delay without its exponential part: (1 + Math.random()) * 500.
RetryDelayFlat(retryCount, jitter) == BaseDelay + jitter

\* (Math.pow(2, retryCount) + Math.random()) * 500, with the random part
\* given as jitter = Math.random() * 500.
RetryDelay(retryCount, jitter) == Pow(2, retryCount) * BaseDelay + jitter

\* retryCount < 5
MayRetry(retryCount) == retryCount < MaxRetries

\* ------------------------------------------------- the widget's state

\* The widget's mutable state as one record, for the handlers below.
State ==
  [cache |-> placeIdsToDetails, ac |-> placeIdsToAutocompleteResults,
   calls |-> calls, batches |-> batches, sel |-> selectedPlaceId,
   panel |-> detailsPanel, marker |-> selectedPlaceMarker,
   next |-> nextPlaceIndex, button |-> showMoreButton,
   results |-> placeResults, alerts |-> alerts]

\* The state after construction, before showNextPlaces(ND_NUM_PLACES_INITIAL):
\* initializePlaceDetails has entered every configured POI in the cache.
\* widget.placeIdsToAutocompleteResults is created, empty, only after
\* showNextPlaces has run; an empty map stands for the missing one, since
\* fetchPlaceDetails goes on to getDetails in both cases.
Constructed(pois) ==
  [cache |-> [id \in Range(pois) |-> NewPlace(id)], ac |-> <<>>,
   calls |-> <<>>, batches |-> <<>>, sel |-> Undefined,
   panel |-> [display |-> FALSE, place |-> NoPlace],
   marker |-> [map |-> FALSE, position |-> Undefined],
   next |-> 0, button |-> [display |-> TRUE, disabled |-> FALSE],
   results |-> <<>>, alerts |-> 0]

\* places.slice(from, to)
Slice(seq, from, to) ==
  LET hi == IF to < Len(seq) THEN to ELSE Len(seq)
  IN IF from >= hi THEN <<>> ELSE SubSeq(seq, from + 1, hi)

\* renderPlaceResults(places, startIndex): the items are appended to the
\* list and widget.addPlaceMarker gives each rendered place its marker.
renderPlaceResults(s, nextPlaces) ==
  [s EXCEPT !.results = @ \o nextPlaces,
            !.cache = [id \in DOMAIN @ |->
                         IF id \in Range(nextPlaces)
                         THEN SetProp(@[id], "marker", TRUE) ELSE @[id]]]

\* processResult of showNextPlaces without 'if (count > 0) return': every
\* callback renders the batch.
BatchProcessResultEager(s, b, hidden) ==
  LET s1 == [s EXCEPT !.batches[b].count = @ - 1]
      n == s.batches[b].n
      s2 == renderPlaceResults(s1, s.batches[b].nextPlaces)
      nextIndex == s.next + n
  IN [s2 EXCEPT !.next = nextIndex,
                !.button = IF nextIndex < Len(places) \/ hidden
                           THEN [display |-> TRUE, disabled |-> FALSE]
                           ELSE [@ EXCEPT !.display = FALSE]]

\* processResult of showNextPlaces, the callback of batch b's fetches.
\* hidden is hasHiddenContent(placesPanelEl), which the page layout decides.
BatchProcessResult(s, b, hidden) ==
  LET s1 == [s EXCEPT !.batches[b].count = @ - 1]
      n == s.batches[b].n
      s2 == renderPlaceResults(s1, s.batches[b].nextPlaces)
      nextIndex == s.next + n
  IN IF s1.batches[b].count > 0 THEN s1
     ELSE [s2 EXCEPT !.next = nextIndex,
                     !.button = IF nextIndex < Len(places) \/ hidden
                                THEN [display |-> TRUE, disabled |-> FALSE]
                                ELSE [@ EXCEPT !.display = FALSE]]

\* processResult of selectPlaceById, the callback of a selection's fetch,
\* with showDetailsPanel(place).
SelectProcessResult(s, place) ==
  [s EXCEPT !.marker = IF Has(place, "marker") THEN [@ EXCEPT !.map = FALSE]
                       ELSE [map |-> TRUE,
                             position |-> IF Has(place, "coords")
                                          THEN place["coords"] ELSE Undefined],
            !.panel = [display |-> TRUE, place |-> place]]

\* callback(place) of call i, invoked twice in a row.
CallbackTwice(s, i, hidden) ==
  LET s1 == [s EXCEPT !.calls[i].callbacks = @ + 2]
      cb == s.calls[i].callback
  IN IF cb.kind = "select"
     THEN SelectProcessResult(SelectProcessResult(s1, s1.cache[s.calls[i].placeId]),
                              s1.cache[s.calls[i].placeId])
     ELSE BatchProcessResult(BatchProcessResult(s1, cb.batch, hidden),
                             cb.batch, hidden)

\* callback(place) of call i.
Callback(s, i, hidden) ==
  LET s1 == [s EXCEPT !.calls[i].callbacks = @ + 1]
      cb == s.calls[i].callback
  IN IF cb.kind = "select" THEN SelectProcessResult(s1, s1.cache[s.calls[i].placeId])
     ELSE BatchProcessResult(s1, cb.batch, hidden)

\* A retry's getDetails is called without processResult: its answer is lost.
GetDetailsWithoutCallback(s, i) ==
  [s EXCEPT !.calls[i].pc = IF @ = "waiting" THEN "unheard" ELSE "requested",
            !.calls[i].requests = @ + 1]

\* detailsService.getDetails(request, processResult) of call i: the request
\* is handed to the places service.
GetDetails(s, i) ==
  [s EXCEPT !.calls[i].pc = "requested", !.calls[i].requests = @ + 1]

\* Call i has come to its end: processResult returns without scheduling
\* anything.  Nothing refers to the closure any more, so its retryCount, its
\* delay and its count of requests are dropped from the state; what stays is
\* the outcome: the status and the result of the last processResult(result,
\* status), and whether the callback ran.
Finish(s, i, pc, status, result) ==
  [s EXCEPT !.calls[i].pc = pc, !.calls[i].status = status,
            !.calls[i].result = result,
            !.calls[i].retryCount = 0, !.calls[i].delay = 0,
            !.calls[i].requests = 0]

\* processResult gives up on call i and alerts the user.
ProcessFailureAlerting(s, i, status, jitter) ==
  IF status = OVER_QUERY_LIMIT /\ MayRetry(s.calls[i].retryCount)
  THEN [s EXCEPT !.calls[i].pc = "waiting",
                 !.calls[i].status = status,
                 !.calls[i].delay = RetryDelay(s.calls[i].retryCount, jitter),
                 !.calls[i].retryCount = @ + 1]
  ELSE [Finish(s, i, "dropped", status, <<>>) EXCEPT !.alerts = @ + 1]

\* processResult retries on any failure status.
ProcessFailureRetryAny(s, i, status, jitter) ==
  IF MayRetry(s.calls[i].retryCount)
  THEN [s EXCEPT !.calls[i].pc = "waiting",
                 !.calls[i].status = status,
                 !.calls[i].delay = RetryDelay(s.calls[i].retryCount, jitter),
                 !.calls[i].retryCount = @ + 1]
  ELSE Finish(s, i, "dropped", status, <<>>)

\* The branch status !== OK of processResult: a rate-limit failure
\* schedules a retry while retryCount < 5, with setTimeout(..., delay) and
\* retryCount++; every other failure, and the rate limit after that, returns.
\* jitter is Math.random() * 500.
ProcessFailure(s, i, status, jitter) ==
  IF status = OVER_QUERY_LIMIT /\ MayRetry(s.calls[i].retryCount)
  THEN [s EXCEPT !.calls[i].pc = "waiting",
                 !.calls[i].status = status,
                 !.calls[i].delay = RetryDelay(s.calls[i].retryCount, jitter),
                 !.calls[i].retryCount = @ + 1]
  ELSE Finish(s, i, "dropped", status, <<>>)

\* processResult runs the callback before it merges the result.
ProcessResultCallbackFirst(s, i, result, status, jitter, hidden) ==
  IF status # OK THEN ProcessFailure(s, i, status, jitter)
  ELSE LET s1 == Callback(Finish(s, i, "done", status, result), i, hidden)
       IN [s1 EXCEPT !.cache[s.calls[i].placeId] =
                       MarkFetched(MergeResult(@, result),
                                   s.calls[i].missingFields)]

\* processResult(result, status) of call i, the closure of fetchPlaceDetails.
ProcessResult(s, i, result, status, jitter, hidden) ==
  IF status # OK THEN ProcessFailure(s, i, status, jitter)
  ELSE Callback(
         [Finish(s, i, "done", status, result)
            EXCEPT !.cache[s.calls[i].placeId] =
                     MarkFetched(MergeResult(@, result),
                                 s.calls[i].missingFields)],
         i, hidden)

\* fetchPlaceDetails without its look-up: a new Place object is made and
\* entered in the cache at every call.
fetchPlaceDetailsFreshPlace(s, placeId, fields, callback, hidden) ==
  IF placeId = Undefined \/ fields = Undefined THEN s
  ELSE
    LET s1 == [s EXCEPT !.cache = (placeId :> NewPlace(placeId)) @@ @]
        place == s1.cache[placeId]
        missingFields == MissingFields(place, fields)
        i == Len(s.calls) + 1
        call == [placeId |-> placeId, fields |-> fields,
                 missingFields |-> missingFields, retryCount |-> 0,
                 callback |-> callback, pc |-> "created", status |-> Undefined,
                 result |-> <<>>,
                 requests |-> 0, delay |-> 0, callbacks |-> 0]
        s2 == [s1 EXCEPT !.calls = Append(@, call)]
    IN IF Len(missingFields) = 0
       THEN Callback(Finish(s2, i, "done", Undefined, <<>>), i, hidden)
       ELSE IF placeId \in DOMAIN s2.ac
            THEN ProcessResult(s2, i, s2.ac[placeId], OK, 0, hidden)
            ELSE GetDetails(s2, i)

\* fetchPlaceDetails without the look-up of an autocomplete result: every
\* call with a missing field goes to the places service.
fetchPlaceDetailsWithoutShortcut(s, placeId, fields, callback, hidden) ==
  IF placeId = Undefined \/ fields = Undefined THEN s
  ELSE
    LET s1 == IF placeId \in DOMAIN s.cache THEN s
              ELSE [s EXCEPT !.cache = (placeId :> NewPlace(placeId)) @@ @]
        place == s1.cache[placeId]
        missingFields == MissingFields(place, fields)
        i == Len(s.calls) + 1
        call == [placeId |-> placeId, fields |-> fields,
                 missingFields |-> missingFields, retryCount |-> 0,
                 callback |-> callback, pc |-> "created", status |-> Undefined,
                 result |-> <<>>,
                 requests |-> 0, delay |-> 0, callbacks |-> 0]
        s2 == [s1 EXCEPT !.calls = Append(@, call)]
    IN IF Len(missingFields) = 0
       THEN Callback(Finish(s2, i, "done", Undefined, <<>>), i, hidden)
       ELSE GetDetails(s2, i)

\* widget.fetchPlaceDetails(placeId, fields, callback)
fetchPlaceDetails(s, placeId, fields, callback, hidden) ==
  IF placeId = Undefined \/ fields = Undefined THEN s
  ELSE
    LET s1 == IF placeId \in DOMAIN s.cache THEN s
              ELSE [s EXCEPT !.cache = (placeId :> NewPlace(placeId)) @@ @]
        place == s1.cache[placeId]
        missingFields == MissingFields(place, fields)
        i == Len(s.calls) + 1
        call == [placeId |-> placeId, fields |-> fields,
                 missingFields |-> missingFields, retryCount |-> 0,
                 callback |-> callback, pc |-> "created", status |-> Undefined,
                 result |-> <<>>,
                 requests |-> 0, delay |-> 0, callbacks |-> 0]
        s2 == [s1 EXCEPT !.calls = Append(@, call)]
    IN IF Len(missingFields) = 0
       THEN Callback(Finish(s2, i, "done", Undefined, <<>>), i, hidden)
       ELSE IF placeId \in DOMAIN s2.ac
            THEN ProcessResult(s2, i, s2.ac[placeId], OK, 0, hidden)
            ELSE GetDetails(s2, i)

\* A selection is refused while any fetch waits for its retry.
selectPlaceByIdBlockedByRetry(s, placeId) ==
  IF s.sel = placeId \/ \E i \in DOMAIN s.calls : s.calls[i].pc = "waiting"
  THEN s
  ELSE fetchPlaceDetails([s EXCEPT !.sel = placeId], placeId, SelectFields,
                         [kind |-> "select", batch |-> 0], FALSE)

\* selectPlaceById without its first line: a selected place is selected anew.
selectPlaceByIdAnew(s, placeId) ==
  fetchPlaceDetails([s EXCEPT !.sel = placeId], placeId, SelectFields,
                    [kind |-> "select", batch |-> 0], FALSE)

\* widget.selectPlaceById(placeId, panToMarker).  The map's viewport is not
\* part of the model, so panToMarker has no effect here.  The callback is
\* selectPlaceById's own processResult, which does not read the page layout
\* (the hidden argument of the fetcher).
selectPlaceById(s, placeId) ==
  IF s.sel = placeId THEN s
  ELSE fetchPlaceDetails([s EXCEPT !.sel = placeId], placeId, SelectFields,
                         [kind |-> "select", batch |-> 0], FALSE)

RECURSIVE FetchEach(_, _, _, _)
\* for (let place of nextPlaces) widget.fetchPlaceDetails(place.placeId, ...)
FetchEach(s, nextPlaces, b, hidden) ==
  IF nextPlaces = <<>> THEN s
  ELSE FetchEach(fetchPlaceDetails(s, Head(nextPlaces), ShowNextFields,
                                   [kind |-> "batch", batch |-> b], hidden),
                 Tail(nextPlaces), b, hidden)

\* showNextPlaces(n)
showNextPlaces(s, n, hidden) ==
  LET nextPlaces == Slice(places, s.next, s.next + n)
      b == Len(s.batches) + 1
  IN IF Len(nextPlaces) < 1 THEN [s EXCEPT !.button.display = FALSE]
     ELSE FetchEach(
            [s EXCEPT !.button.disabled = TRUE,
                      !.batches = Append(@, [count |-> Len(nextPlaces),
                                             nextPlaces |-> nextPlaces, n |-> n])],
            nextPlaces, b, hidden)

\* ------------------------------------------------------ environment

\* google.maps.places.PriceLevel: 0 is FREE.
PriceLevels == {0, 1, 2}

\* A result object with the given price level; -1 leaves the attribute out.
MakeResult(priceLevel) ==
  IF priceLevel = -1 THEN <<>> ELSE "price_level" :> priceLevel

\* The results the places service may give for a request: a value for
\* price_level when the request lists it, or none.
ServiceResults(fields) ==
  {MakeResult(priceLevel) :
     priceLevel \in IF "price_level" \in Range(fields)
                    THEN PriceLevels \cup {-1} ELSE {-1}}

\* autocomplete.getPlace(): a prediction the user picked, with its place_id,
\* or, when the user pressed Enter on plain text, only the text as name.
AutocompletePlaces ==
  {SetProp(MakeResult(2), "place_id", id) : id \in SearchablePlaceIds}
  \cup {"name" :> "text"}

\* ------------------------------------------------- the BMI calculator

\* Text is a sequence of characters, so that parsing and formatting are
\* computed the way the code's library functions compute them.
Digits == <<"0", "1", "2", "3", "4", "5", "6", "7", "8", "9">>

IsDigit(c) == c \in Range(Digits)

DigitValue(c) == (CHOOSE k \in DOMAIN Digits : Digits[k] = c) - 1

RECURSIVE LeadingDigits(_)
\* The longest prefix of decimal digits.
LeadingDigits(text) ==
  IF text = <<>> \/ ~IsDigit(Head(text)) THEN <<>>
  ELSE <<Head(text)>> \o LeadingDigits(Tail(text))

RECURSIVE DigitsValue(_)
\* The number a sequence of digits denotes.
DigitsValue(digits) ==
  IF digits = <<>> THEN 0
  ELSE 10 * DigitsValue(SubSeq(digits, 1, Len(digits) - 1))
       + DigitValue(digits[Len(digits)])

RECURSIVE TrimStart(_)
TrimStart(text) ==
  IF text # <<>> /\ Head(text) = " " THEN TrimStart(Tail(text)) ELSE text

\* A number is NaN or the fraction num / den.
NaN == [nan |-> TRUE, num |-> 0, den |-> 1]

\* parseFloat(text): leading blanks are skipped, then the longest prefix that
\* is a decimal literal (sign, digits, point, digits) is the value, whatever
\* follows it; NaN when there is no such prefix.
parseFloat(text) ==
  LET t == TrimStart(text)
      signed == t # <<>> /\ Head(t) \in {"-", "+"}
      sign == IF t # <<>> /\ Head(t) = "-" THEN -1 ELSE 1
      u == IF signed THEN Tail(t) ELSE t
      int == LeadingDigits(u)
      rest == SubSeq(u, Len(int) + 1, Len(u))
      frac == IF rest # <<>> /\ Head(rest) = "."
              THEN LeadingDigits(Tail(rest)) ELSE <<>>
  IN IF Len(int) + Len(frac) = 0 THEN NaN
     ELSE [nan |-> FALSE, num |-> sign * DigitsValue(int \o frac),
           den |-> Pow(10, Len(frac))]

isNaN(x) == x.nan

RECURSIVE NumberDigits(_)
\* The decimal digits of a whole number n >= 0.
NumberDigits(n) ==
  IF n < 10 THEN <<Digits[n + 1]>>
  ELSE Append(NumberDigits(n \div 10), Digits[(n % 10) + 1])

\* x.toFixed(2) for x >= 0: x rounded to hundredths, halves upwards.  (The
\* code rounds the double nearest to x, which on a half may go either way;
\* the inputs of the model produce no half.)
toFixed2(x) ==
  LET q == (x.num * 100) \div x.den
      r == (x.num * 100) % x.den
      hundredths == IF 2 * r >= x.den THEN q + 1 ELSE q
  IN NumberDigits(hundredths \div 100) \o <<".">>
     \o <<Digits[((hundredths \div 10) % 10) + 1], Digits[(hundredths % 10) + 1]>>

\* bmi < limit, with the limit given in tenths (185 is 18.5).
Below(bmi, tenths) == bmi.num * 10 < tenths * bmi.den

\* The category for women: the first limit is 22 where the code has 18.5.
BMICategoryFemaleLimit(gender, bmi) ==
  IF gender = "male"
  THEN IF Below(bmi, 185) THEN "Underweight"
       ELSE IF ~Below(bmi, 185) /\ Below(bmi, 249) THEN "Normal weight"
       ELSE IF ~Below(bmi, 250) /\ Below(bmi, 299) THEN "Overweight"
       ELSE "Obese"
  ELSE IF gender = "female"
  THEN IF Below(bmi, 220) THEN "Underweight"
       ELSE IF ~Below(bmi, 220) /\ Below(bmi, 249) THEN "Normal weight"
       ELSE IF ~Below(bmi, 250) /\ Below(bmi, 299) THEN "Overweight"
       ELSE "Obese"
  ELSE Undefined

\* The if-chains of calculateBMI that set category; with a gender that is
\* neither 'male' nor 'female' the variable stays undefined.
BMICategory(gender, bmi) ==
  IF gender = "male"
  THEN IF Below(bmi, 185) THEN "Underweight"
       ELSE IF ~Below(bmi, 185) /\ Below(bmi, 249) THEN "Normal weight"
       ELSE IF ~Below(bmi, 250) /\ Below(bmi, 299) THEN "Overweight"
       ELSE "Obese"
  ELSE IF gender = "female"
  THEN IF Below(bmi, 185) THEN "Underweight"
       ELSE IF ~Below(bmi, 185) /\ Below(bmi, 249) THEN "Normal weight"
       ELSE IF ~Below(bmi, 250) /\ Below(bmi, 299) THEN "Overweight"
       ELSE "Obese"
  ELSE Undefined

\* No alert() dialog is open.
NoAlert == ""

\* An element whose innerHTML has not been written.
EmptyElement == [label |-> "", value |-> <<>>]

\* weight / (heightInMeters * heightInMeters), heightInMeters = height / 100.
BMIValue(height, weight) ==
  [nan |-> FALSE, num |-> weight.num * height.den * height.den * 10000,
   den |-> weight.den * height.num * height.num]

\* The invalid inputs make calculateBMI alert and then empty both elements.
calculateBMIClearingOnInvalid(page) ==
  LET height == parseFloat(page.height)
      weight == parseFloat(page.weight)
  IN IF isNaN(height) \/ isNaN(weight) \/ height.num <= 0 \/ weight.num <= 0
     THEN [page EXCEPT !.alert = "Please enter valid height and weight.",
                       !.result = EmptyElement, !.category = EmptyElement]
     ELSE LET bmi == BMIValue(height, weight)
          IN [page EXCEPT
                !.result = [label |-> "Your BMI is: ", value |-> toFixed2(bmi)],
                !.category = [label |-> "BMI Category: ",
                              value |-> BMICategory(page.gender, bmi)]]

\* calculateBMI(event), on the page's form.  The age is read and not used.
calculateBMI(page) ==
  LET height == parseFloat(page.height)
      weight == parseFloat(page.weight)
  IN IF isNaN(height) \/ isNaN(weight) \/ height.num <= 0 \/ weight.num <= 0
     THEN [page EXCEPT !.alert = "Please enter valid height and weight."]
     ELSE LET bmi == BMIValue(height, weight)
          IN [page EXCEPT
                !.result = [label |-> "Your BMI is: ", value |-> toFixed2(bmi)],
                !.category = [label |-> "BMI Category: ",
                              value |-> BMICategory(page.gender, bmi)]]

\* The BMI page as loaded: an empty form, nothing displayed.
BMIPageLoaded ==
  [gender |-> "male", height |-> <<>>, weight |-> <<>>,
   result |-> EmptyElement, category |-> EmptyElement, alert |-> NoAlert]

\* What the model's user types in the height and weight fields.
HeightTexts ==
  {<<>>, <<"x">>, <<"0">>, <<"-", "5">>, <<"1", "8", "0">>, <<"2", "0", "0">>,
   <<" ", "1", "8", "0", "c", "m">>}

WeightTexts ==
  {<<>>, <<"x">>, <<"0">>, <<"-", "7", "0">>, <<"7", "0">>,
   <<"7", "2", ".", "9">>, <<"9", "9", ".", "8">>, <<"1", "0", "4">>}

\* The values of the gender field.
Genders == {"male", "female", "other"}

\* ------------------------------------------------- opening hours

\* The characters \\w of a regular expression matches.
WordChars ==
  Range(Digits) \cup {"_"}
  \cup {"a", "b", "c", "d", "e", "f", "g", "h", "i", "j", "k", "l", "m",
     "n", "o", "p", "q", "r", "s", "t", "u", "v", "w", "x", "y", "z"}
  \cup {"A", "B", "C", "D", "E", "F", "G", "H", "I", "J", "K", "L", "M",
     "N", "O", "P", "Q", "R", "S", "T", "U", "V", "W", "X", "Y", "Z"}

\* The characters \\s matches, of those the model's texts hold.
SpaceChars == {" "}

RECURSIVE SkipSpaces(_)
SkipSpaces(text) ==
  IF text # <<>> /\ Head(text) \in SpaceChars THEN SkipSpaces(Tail(text)) ELSE text

RECURSIVE SplitColonSpaces(_, _)
\* text.split(/\:\s+/): the pieces between the colons that white space
\* follows; piece is the beginning of the piece being read.
SplitColonSpaces(piece, text) ==
  IF text = <<>> THEN <<piece>>
  ELSE IF Head(text) = ":" /\ Len(text) > 1 /\ text[2] \in SpaceChars
       THEN <<piece>> \o SplitColonSpaces(<<>>, SkipSpaces(Tail(text)))
       ELSE SplitColonSpaces(Append(piece, Head(text)), Tail(text))

\* text.substr(0, length)
Substr0(text, length) ==
  SubSeq(text, 1, IF Len(text) < length THEN Len(text) ELSE length)

\* text.indexOf(c) !== -1
Contains(text, c) == \E k \in DOMAIN text : text[k] = c

RECURSIVE TrailingWordLength(_)
\* The length of the match of /\\w+$/ in text, 0 if there is none.
TrailingWordLength(text) ==
  IF text = <<>> \/ text[Len(text)] \notin WordChars THEN 0
  ELSE 1 + TrailingWordLength(SubSeq(text, 1, Len(text) - 1))

\* text.replace(/\\w+$/, word)
ReplaceTrailingWord(text, word) ==
  LET n == TrailingWordLength(text)
  IN IF n = 0 THEN text ELSE SubSeq(text, 1, Len(text) - n) \o word

\* The two map() calls of parseDaysHours: an entry 'Monday: 9:00' becomes
\* {days: 'Mon', hours: '9:00'}.  An entry without a colon and a blank has
\* no second piece, and its hours are undefined.
DayAndHours(entry) ==
  LET e == SplitColonSpaces(<<>>, entry)
  IN [days |-> Substr0(e[1], 3),
      hours |-> IF Len(e) > 1 THEN e[2] ELSE <<Undefined>>]

\* daysHours[i - 1] takes in daysHours[i], which is spliced out: i is the
\* code's i, the 1-based index of daysHours[i - 1].
MergeIntoPrevious(dh, i) ==
  LET days == IF Contains(dh[i].days, "-")
              THEN ReplaceTrailingWord(dh[i].days, dh[i + 1].days)
              ELSE dh[i].days \o <<" ", "-", " ">> \o dh[i + 1].days
  IN SubSeq(dh, 1, i - 1) \o <<[dh[i] EXCEPT !.days = days]>>
     \o SubSeq(dh, i + 2, Len(dh))

RECURSIVE CollapseWithoutStepBack(_, _)
\* The loop with splice(i, 1) for splice(i--, 1): after a merge the next
\* entry is not compared with the merged one.
CollapseWithoutStepBack(dh, i) ==
  IF i >= Len(dh) THEN dh
  ELSE IF dh[i].hours = dh[i + 1].hours
       THEN CollapseWithoutStepBack(MergeIntoPrevious(dh, i), i + 1)
       ELSE CollapseWithoutStepBack(dh, i + 1)

RECURSIVE Collapse(_, _)
\* The for loop of parseDaysHours from index i on: splice(i--, 1) and the
\* loop's i++ leave i where it is after a merge.
Collapse(dh, i) ==
  IF i >= Len(dh) THEN dh
  ELSE IF dh[i].hours = dh[i + 1].hours
       THEN Collapse(MergeIntoPrevious(dh, i), i)
       ELSE Collapse(dh, i + 1)

\* parseDaysHours(openingHours), given openingHours.weekday_text.
parseDaysHours(weekdayText) ==
  Collapse([k \in DOMAIN weekdayText |-> DayAndHours(weekdayText[k])], 1)

\* The names of the days, in the order of weekday_text.
DayNames ==
  <<<<"M", "o", "n", "d", "a", "y">>,
    <<"T", "u", "e", "s", "d", "a", "y">>,
    <<"W", "e", "d", "n", "e", "s", "d", "a", "y">>,
    <<"T", "h", "u", "r", "s", "d", "a", "y">>,
    <<"F", "r", "i", "d", "a", "y">>,
    <<"S", "a", "t", "u", "r", "d", "a", "y">>,
    <<"S", "u", "n", "d", "a", "y">>>>

\* The hours the model's places keep.
HoursTexts ==
  {<<"9", ":", "0", "0", "-", "1", "7", ":", "0", "0">>,
   <<"C", "l", "o", "s", "e", "d">>,
   <<"O", "p", "e", "n", " ", "2", "4", " ", "h", "o", "u", "r", "s">>}

\* The weekday_text lists of the model: the first days of the week, each
\* with one of the hours.
WeekdayTexts ==
  UNION {{[d \in 1..k |-> DayNames[d] \o <<":", " ">> \o hours[d]] :
            hours \in [1..k -> HoursTexts]} : k \in 0..Len(DayNames)}

\* ------------------------------------------------- the hospital page

\* navigator.geolocation of the browser: missing; as the Geolocation API
\* defines it, with the error codes 1 to 3; or as its first drafts and the
\* browsers of that time had it, with UNKNOWN_ERROR = 0 besides.
GeolocationKinds == {"none", "standard", "legacy"}

\* The error objects a browser of the given kind passes to showErr.
PositionErrors(geolocation) ==
  LET standard == [PERMISSION_DENIED |-> 1, POSITION_UNAVAILABLE |-> 2,
                   TIMEOUT |-> 3]
  IN IF geolocation = "standard"
     THEN {("code" :> code) @@ standard : code \in 1..3}
     ELSE IF geolocation = "legacy"
     THEN {("code" :> code) @@ ("UNKNOWN_ERROR" :> 0) @@ standard :
             code \in 0..3}
     ELSE {}

\* The positions the model's browser reports.
Positions == {"here", "there"}

\* The hospital page as loaded by hospital.js in a browser whose geolocation
\* is of the given kind: one map, centred on the fixed position.
HospitalPageLoaded(geolocation) ==
  [geolocation |-> geolocation, mapsDrawn |-> 1, center |-> "fixed",
   pending |-> 0, alert |-> NoAlert]

\* getlocation()
getlocation(page) ==
  IF page.geolocation # "none" THEN [page EXCEPT !.pending = @ + 1]
  ELSE [page EXCEPT
          !.alert = "Sorry! your Browser does not support Geolocation API"]

\* showPos(position): a new map with its marker, centred on the position.
showPos(page, position) ==
  [page EXCEPT !.mapsDrawn = @ + 1, !.center = position]

\* showErr with the message of POSITION_UNAVAILABLE for a timeout as well.
showErrTimeoutAsUnavailable(page, error) ==
  IF error["code"] = error["PERMISSION_DENIED"]
  THEN [page EXCEPT !.alert = "User denied the request for Geolocation API."]
  ELSE IF error["code"] = error["POSITION_UNAVAILABLE"]
  THEN [page EXCEPT !.alert = "USer location information is unavailable."]
  ELSE IF error["code"] = error["TIMEOUT"]
  THEN [page EXCEPT !.alert = "USer location information is unavailable."]
  ELSE IF Has(error, "UNKNOWN_ERROR") /\ error["code"] = error["UNKNOWN_ERROR"]
  THEN [page EXCEPT !.alert = "An unknown error occurred."]
  ELSE page

\* showErr(error): the switch on error.code.  Where the browser's error
\* object has no UNKNOWN_ERROR, that case label is undefined and no code
\* equals it.
showErr(page, error) ==
  IF error["code"] = error["PERMISSION_DENIED"]
  THEN [page EXCEPT !.alert = "User denied the request for Geolocation API."]
  ELSE IF error["code"] = error["POSITION_UNAVAILABLE"]
  THEN [page EXCEPT !.alert = "USer location information is unavailable."]
  ELSE IF error["code"] = error["TIMEOUT"]
  THEN [page EXCEPT !.alert = "The request to get user location timed out."]
  ELSE IF Has(error, "UNKNOWN_ERROR") /\ error["code"] = error["UNKNOWN_ERROR"]
  THEN [page EXCEPT !.alert = "An unknown error occurred."]
  ELSE page

\* ------------------------------------------------- the pages at rest

\* The scripts of the other pages at rest.
PagesLoaded ==
  /\ bmiPage = BMIPageLoaded
  /\ weekday_text = <<>>
  /\ daysHours = <<>>
  /\ hospitalPage = HospitalPageLoaded("standard")

\* ---------------------------------------------------------- actions

Commit(s) ==
  /\ placeIdsToDetails' = s.cache
  /\ placeIdsToAutocompleteResults' = s.ac
  /\ calls' = s.calls
  /\ batches' = s.batches
  /\ selectedPlaceId' = s.sel
  /\ detailsPanel' = s.panel
  /\ selectedPlaceMarker' = s.marker
  /\ nextPlaceIndex' = s.next
  /\ showMoreButton' = s.button
  /\ placeResults' = s.results
  /\ alerts' = s.alerts
  /\ UNCHANGED <<places, pageVars>>

\* The widget as constructed: new NeighborhoodDiscovery(configuration), which
\* ends with showNextPlaces(ND_NUM_PLACES_INITIAL) and an empty
\* placeIdsToAutocompleteResults.
WidgetInit(pois, hidden) ==
    /\ places = pois
    /\ LET s == showNextPlaces(Constructed(pois), ND_NUM_PLACES_INITIAL, hidden)
       IN /\ placeIdsToDetails = s.cache
          /\ placeIdsToAutocompleteResults = s.ac
          /\ calls = s.calls
          /\ batches = s.batches
          /\ selectedPlaceId = s.sel
          /\ detailsPanel = s.panel
          /\ selectedPlaceMarker = s.marker
          /\ nextPlaceIndex = s.next
          /\ showMoreButton = s.button
          /\ placeResults = s.results
          /\ alerts = s.alerts

\* The widget's specification starts with the widget as constructed and the
\* site's other scripts at rest.
Init ==
  /\ \E pois \in PoiConfigs, hidden \in BOOLEAN : WidgetInit(pois, hidden)
  /\ PagesLoaded

\* A handler that would create more closures than the model's bound is
\* left out of the behaviours.
WithinBounds(s) == Len(s.calls) <= MaxCalls

\* The map's click listener: the user clicks a POI pin of the base map.
MapClick ==
  \E placeId \in PlaceIds :
    LET s == selectPlaceById(State, placeId)
    IN WithinBounds(s) /\ Commit(s)

\* The click listeners of a rendered place: its list item, its name, or the
\* marker addPlaceMarker drew for it.
PlaceResultClick ==
  \E k \in DOMAIN placeResults :
    LET s == selectPlaceById(State, placeResults[k])
    IN WithinBounds(s) /\ Commit(s)

\* The 'place_changed' listener of the search input.  A text-only place has
\* no place_id: the code files it under the key undefined, an entry nothing
\* reads (fetchPlaceDetails returns before it looks), which is left out here.
PlaceChanged ==
  \E place \in AutocompletePlaces :
    LET id == IF Has(place, "place_id") THEN place["place_id"] ELSE Undefined
        s1 == IF id = Undefined THEN State
              ELSE [State EXCEPT !.ac = (id :> place) @@ @]
        s == selectPlaceById(s1, id)
    IN WithinBounds(s) /\ Commit(s)

\* The back button of the details panel, which exists once the panel has
\* been rendered and can be clicked while the panel is shown.
BackButtonClick ==
  /\ detailsPanel.display
  /\ Commit([State EXCEPT !.panel.display = FALSE, !.sel = Undefined,
                          !.marker.map = FALSE])

\* The click listener of the Show More button; a disabled or hidden button
\* takes no clicks.
ShowMoreClick ==
  /\ showMoreButton.display /\ ~showMoreButton.disabled
  /\ \E hidden \in BOOLEAN :
       LET s == showNextPlaces(State, ND_NUM_PLACES_SHOW_MORE, hidden)
       IN WithinBounds(s) /\ Commit(s)

\* The places service answers the request of call i with one of statuses:
\* processResult runs.  The jitter matters to a rate-limit answer only, the
\* result to an OK only, and the page layout only to the callback of a
\* showNextPlaces fetch.
Respond(statuses, jitters) ==
  \E i \in DOMAIN calls, status \in statuses :
    /\ calls[i].pc = "requested"
    /\ \E result \in IF status = OK THEN ServiceResults(calls[i].missingFields)
                     ELSE {<<>>},
          jitter \in IF status = OVER_QUERY_LIMIT THEN jitters ELSE {0},
          hidden \in IF status = OK /\ calls[i].callback.kind = "batch"
                    THEN BOOLEAN ELSE {FALSE} :
         Commit(ProcessResult(State, i, result, status, jitter, hidden))

\* The delay of a retry decides only when its timer fires, and timers fire
\* in any order here, so the widget's specification draws one jitter value;
\* SpecBackoff below draws from Jitters.
GetDetailsResponse == Respond(Statuses, {0})

\* The timer of a scheduled retry of call i fires: getDetails is called again
\* with the same request.
RetryTimer ==
  \E i \in DOMAIN calls :
    /\ calls[i].pc = "waiting"
    /\ Commit(GetDetails(State, i))

Next ==
  \/ MapClick
  \/ PlaceResultClick
  \/ PlaceChanged
  \/ BackButtonClick
  \/ ShowMoreClick
  \/ GetDetailsResponse
  \/ RetryTimer

Spec == Init /\ [][Next]_vars

\* Every response is a rate-limit failure, with the jitter drawn from
\* Jitters: the specification of the backoff.  Nothing is ever rendered
\* under it, so the list and the Show More button take no clicks.
RateLimitedResponse == Respond({OVER_QUERY_LIMIT}, Jitters)

NextBackoff ==
  \/ MapClick
  \/ PlaceChanged
  \/ BackButtonClick
  \/ RateLimitedResponse
  \/ RetryTimer

SpecBackoff == Init /\ [][NextBackoff]_vars

\* A request is with the places service: a response is due.
ResponseDue == \E i \in DOMAIN calls : calls[i].pc = "requested"

\* ResponseDue is the enabling condition of a response step.
ResponseDueIsEnabled == ResponseDue <=> ENABLED <<GetDetailsResponse>>_vars

\* The places service answers every request: WF_vars(GetDetailsResponse),
\* written out with ResponseDue for ENABLED <<GetDetailsResponse>>_vars.
ServiceAnswers ==
  []<>(~ResponseDue) \/ []<><<GetDetailsResponse>>_vars

\* The places service answers every request and every timer fires.
FairSpec == Spec /\ ServiceAnswers /\ WF_vars(RetryTimer)

\* ------------------------------------------- the list's batches

\* A configuration with more places than one batch takes.
BatchPois == <<"p1", "p2", "p3", "p4", "p5", "p6">>

\* The Show More button's click listener, within the bound of this
\* specification.
ShowMoreClickInList ==
  /\ showMoreButton.display /\ ~showMoreButton.disabled
  /\ \E hidden \in BOOLEAN :
       LET s == showNextPlaces(State, ND_NUM_PLACES_SHOW_MORE, hidden)
       IN Len(s.calls) <= MaxBatchCalls /\ Commit(s)

\* The places service answers a fetch of the list with the place or with a
\* failure that is final.
ListResponse == Respond({OK, "NOT_FOUND"}, {0})

InitBatches ==
  /\ \E hidden \in BOOLEAN : WidgetInit(BatchPois, hidden)
  /\ PagesLoaded

NextBatches ==
  \/ ShowMoreClickInList
  \/ ListResponse

\* The list of a widget configured with BatchPois, filled batch by batch.
SpecBatches == InitBatches /\ [][NextBatches]_vars

\* ------------------------------------- the BMI calculator's behaviours

\* The user edits the form; an open alert() dialog takes every input until
\* it is dismissed.
EnterHeight ==
  /\ bmiPage.alert = NoAlert
  /\ \E text \in HeightTexts : bmiPage' = [bmiPage EXCEPT !.height = text]
  /\ UNCHANGED <<widgetVars, weekday_text, daysHours, hospitalPage>>

EnterWeight ==
  /\ bmiPage.alert = NoAlert
  /\ \E text \in WeightTexts : bmiPage' = [bmiPage EXCEPT !.weight = text]
  /\ UNCHANGED <<widgetVars, weekday_text, daysHours, hospitalPage>>

ChooseGender ==
  /\ bmiPage.alert = NoAlert
  /\ \E gender \in Genders : bmiPage' = [bmiPage EXCEPT !.gender = gender]
  /\ UNCHANGED <<widgetVars, weekday_text, daysHours, hospitalPage>>

\* The form is submitted: calculateBMI(event) runs.
SubmitBMI ==
  /\ bmiPage.alert = NoAlert
  /\ bmiPage' = calculateBMI(bmiPage)
  /\ UNCHANGED <<widgetVars, weekday_text, daysHours, hospitalPage>>

\* The user closes the alert() dialog; calculateBMI returns.
DismissBMIAlert ==
  /\ bmiPage.alert # NoAlert
  /\ bmiPage' = [bmiPage EXCEPT !.alert = NoAlert]
  /\ UNCHANGED <<widgetVars, weekday_text, daysHours, hospitalPage>>

\* The page of the BMI calculator: the widget shows no place and is left
\* alone.
InitBMI == WidgetInit(<<>>, FALSE) /\ PagesLoaded

NextBMI ==
  \/ EnterHeight
  \/ EnterWeight
  \/ ChooseGender
  \/ SubmitBMI
  \/ DismissBMIAlert

SpecBMI == InitBMI /\ [][NextBMI]_vars

\* ------------------------------------------ opening hours' behaviours

\* A place's opening hours are parsed: parseDaysHours(result.opening_hours).
ParseOpeningHours ==
  /\ daysHours' = parseDaysHours(weekday_text)
  /\ UNCHANGED <<widgetVars, bmiPage, weekday_text, hospitalPage>>

\* A places result with opening hours is at hand.
InitHours ==
  /\ WidgetInit(<<>>, FALSE)
  /\ bmiPage = BMIPageLoaded
  /\ weekday_text \in WeekdayTexts
  /\ daysHours = <<>>
  /\ hospitalPage = HospitalPageLoaded("standard")

NextHours == ParseOpeningHours

SpecHours == InitHours /\ [][NextHours]_vars

\* ---------------------------------------- the hospital page's behaviours

\* The user asks for the current position: getlocation() runs.
GetLocationClick ==
  /\ hospitalPage.alert = NoAlert
  /\ hospitalPage.pending < MaxPending
  /\ hospitalPage' = getlocation(hospitalPage)
  /\ UNCHANGED <<widgetVars, bmiPage, weekday_text, daysHours>>

\* The browser answers a pending request with a position: showPos runs.
PositionFound ==
  /\ hospitalPage.alert = NoAlert
  /\ hospitalPage.pending > 0
  /\ hospitalPage.mapsDrawn < MaxMapsDrawn
  /\ \E position \in Positions :
       hospitalPage' = showPos([hospitalPage EXCEPT !.pending = @ - 1], position)
  /\ UNCHANGED <<widgetVars, bmiPage, weekday_text, daysHours>>

\* The browser answers a pending request with an error: showErr runs.
PositionFailed ==
  /\ hospitalPage.alert = NoAlert
  /\ hospitalPage.pending > 0
  /\ \E error \in PositionErrors(hospitalPage.geolocation) :
       hospitalPage' = showErr([hospitalPage EXCEPT !.pending = @ - 1], error)
  /\ UNCHANGED <<widgetVars, bmiPage, weekday_text, daysHours>>

\* The user closes the alert() dialog.
DismissHospitalAlert ==
  /\ hospitalPage.alert # NoAlert
  /\ hospitalPage' = [hospitalPage EXCEPT !.alert = NoAlert]
  /\ UNCHANGED <<widgetVars, bmiPage, weekday_text, daysHours>>

\* The hospital page in a browser of any kind.
InitHospital ==
  /\ WidgetInit(<<>>, FALSE)
  /\ bmiPage = BMIPageLoaded
  /\ weekday_text = <<>>
  /\ daysHours = <<>>
  /\ \E geolocation \in GeolocationKinds :
       hospitalPage = HospitalPageLoaded(geolocation)

NextHospital ==
  \/ GetLocationClick
  \/ PositionFound
  \/ PositionFailed
  \/ DismissHospitalAlert

SpecHospital == InitHospital /\ [][NextHospital]_vars

\* ------------------------------------------------------------ claims

\* Call i is created by this step.
IsNew(i) == i \in DOMAIN calls' /\ i \notin DOMAIN calls

\* This step hands a request of call i to the places service.
Sends(i) ==
  /\ i \in DOMAIN calls' /\ calls'[i].pc = "requested"
  /\ (i \in DOMAIN calls => calls[i].pc # "requested")

\* processResult of call i runs in this step.
Answered(i) ==
  i \in DOMAIN calls /\ calls[i].pc = "requested" /\ calls'[i].pc # "requested"

\* The fetched-fields set of a place as fetchPlaceDetails finds it.
FetchedBefore(id) ==
  IF id \in DOMAIN placeIdsToDetails THEN placeIdsToDetails[id].fetchedFields
  ELSE {"place_id"}

\* C1: a fetchPlaceDetails call all of whose fields are already in the
\* place's fetched-fields set invokes its callback in the same task, with
\* the cached place object, and sends no request to the places service.
C1_CacheHitIsSynchronous ==
  [][\A i \in DOMAIN calls' :
       (IsNew(i) /\ Range(calls'[i].fields) \subseteq FetchedBefore(calls'[i].placeId))
       => /\ calls'[i].pc = "done"
          /\ calls'[i].callbacks = 1
          /\ calls'[i].status = Undefined
          /\ ~Sends(i)
          /\ calls'[i].callback.kind = "select"
             => /\ detailsPanel'.display
                /\ detailsPanel'.place = placeIdsToDetails'[calls'[i].placeId]
                /\ detailsPanel'.place = placeIdsToDetails[calls'[i].placeId]]_vars

\* A call that found everything cached has run its callback.
C1_Witness ==
  \E i \in DOMAIN calls :
    /\ calls[i].pc = "done" /\ calls[i].status = Undefined
    /\ calls[i].callbacks = 1 /\ Len(calls[i].missingFields) = 0

\* C2: no request handed to the places service, first attempt or retry,
\* lists a field that is in the place's fetched-fields set at that moment.
C2_NeverRequestsFetchedField ==
  [][\A i \in DOMAIN calls' :
       Sends(i)
       => Range(calls'[i].missingFields)
            \cap placeIdsToDetails'[calls'[i].placeId].fetchedFields = {}]_vars

C4_AtMostFiveAttempts ==
  \A i \in DOMAIN calls : calls[i].requests <= 5

\* The place of call i before and after this step.
PlaceOf(i) == placeIdsToDetails[calls[i].placeId]
PlaceOfNext(i) == placeIdsToDetails'[calls[i].placeId]

\* The widget's page as the user sees it.
Page == <<detailsPanel, selectedPlaceMarker, showMoreButton, placeResults, alerts>>

\* The callback of call i has run in this step with the cached place object.
CallbackRan(i) ==
  /\ calls'[i].callbacks = calls[i].callbacks + 1
  /\ calls[i].callback.kind = "select"
     => detailsPanel' = [display |-> TRUE, place |-> PlaceOfNext(i)]
  /\ calls[i].callback.kind = "batch"
     => batches'[calls[i].callback.batch].count
          = batches[calls[i].callback.batch].count - 1

\* The statement of C5 as the claim has it: on an OK answer every returned
\* attribute is merged into the cached place, the missing fields are marked
\* fetched, and the callback then runs with that object.
C5_ReturnedAttributesMerged ==
  [][\A i \in DOMAIN calls :
       (Answered(i) /\ calls'[i].status = OK)
       => /\ Has(calls'[i].result, "price_level")
             => /\ Has(PlaceOfNext(i), "priceLevel")
                /\ PlaceOfNext(i)["priceLevel"] = calls'[i].result["price_level"]
          /\ Range(calls[i].fields) \subseteq PlaceOfNext(i).fetchedFields
          /\ CallbackRan(i)]_vars

\* C5, amended: on an OK answer every returned attribute with a truthy value
\* is merged into the cached place (an attribute that is absent, or whose
\* value is 0, leaves the cached one as it was), every missing field is
\* marked fetched, and the callback then runs with that object, whose
\* fetched-fields set holds every requested field.
C5_TruthyAttributesMergedThenCallback ==
  [][\A i \in DOMAIN calls :
       (Answered(i) /\ calls'[i].status = OK)
       => /\ IF Has(calls'[i].result, "price_level")
                /\ calls'[i].result["price_level"] # 0
             THEN /\ Has(PlaceOfNext(i), "priceLevel")
                  /\ PlaceOfNext(i)["priceLevel"] = calls'[i].result["price_level"]
                  /\ Len(PlaceOfNext(i)["dollarSigns"])
                       = calls'[i].result["price_level"]
             ELSE /\ Has(PlaceOfNext(i), "priceLevel") = Has(PlaceOf(i), "priceLevel")
                  /\ Has(PlaceOf(i), "priceLevel")
                     => PlaceOfNext(i)["priceLevel"] = PlaceOf(i)["priceLevel"]
          /\ PlaceOfNext(i).fetchedFields
               = PlaceOf(i).fetchedFields \cup Range(calls[i].missingFields)
          /\ Range(calls[i].fields) \subseteq PlaceOfNext(i).fetchedFields
          /\ calls'[i].pc = "done"
          /\ CallbackRan(i)]_vars

\* An OK answer with a price level has been merged and shown.
C5_Witness ==
  \E i \in DOMAIN calls :
    /\ calls[i].pc = "done" /\ calls[i].status = OK
    /\ Has(calls[i].result, "price_level") /\ calls[i].result["price_level"] = 2
    /\ calls[i].callback.kind = "select"
    /\ detailsPanel.display
    /\ detailsPanel.place = PlaceOf(i)
    /\ Has(PlaceOf(i), "priceLevel")

\* C6: the request of a fetchPlaceDetails call lists exactly the requested
\* fields that are not in the place's fetched-fields set when the call is
\* made, every one of them and no fetched one; a retry sends that list again.
C6_RequestIsMissingSubset ==
  [][\A i \in DOMAIN calls' :
       Sends(i)
       => IF IsNew(i)
          THEN /\ Range(calls'[i].missingFields)
                    = Range(calls'[i].fields) \ FetchedBefore(calls'[i].placeId)
               /\ Len(calls'[i].missingFields)
                    = Cardinality(Range(calls'[i].missingFields))
          ELSE calls'[i].missingFields = calls[i].missingFields]_vars

\* A request for part of the wanted fields only is with the service.
C6_Witness ==
  \E i \in DOMAIN calls :
    /\ calls[i].pc = "requested"
    /\ Len(calls[i].missingFields) < Len(calls[i].fields)
    /\ Range(calls[i].missingFields) \cap PlaceOf(i).fetchedFields = {}

\* C7: an answer with a failure status other than the rate limit drops the
\* call: no retry is scheduled, the callback does not run, and the cache and
\* the page stay as they are.
C7_OtherFailureDropsCall ==
  [][\A i \in DOMAIN calls :
       (Answered(i) /\ calls'[i].status \notin {OK, OVER_QUERY_LIMIT})
       => /\ calls'[i].pc = "dropped"
          /\ calls'[i].callbacks = 0
          /\ placeIdsToDetails' = placeIdsToDetails
          /\ batches' = batches
          /\ Page' = Page]_vars

\* A call has been dropped on a failure that is not the rate limit.
C7_Witness ==
  \E i \in DOMAIN calls :
    calls[i].pc = "dropped" /\ calls[i].status = "NOT_FOUND"

\* C8: a fetch that gives up after its rate-limit retries leaves the cache
\* and the page as they are, never runs its callback afterwards, and no
\* alert is ever shown by the widget.
C8_GivingUpIsSilent ==
  /\ [](alerts = 0)
  /\ [][\A i \in DOMAIN calls :
          /\ (Answered(i) /\ calls'[i].pc = "dropped")
             => /\ calls'[i].callbacks = 0
                /\ placeIdsToDetails' = placeIdsToDetails
                /\ batches' = batches
                /\ Page' = Page
          /\ calls[i].pc = "dropped" => calls'[i] = calls[i]]_vars

\* A fetch gave up on the rate limit and the user has gone on since.
C8_Witness ==
  \E i \in DOMAIN calls :
    /\ calls[i].pc = "dropped" /\ calls[i].status = OVER_QUERY_LIMIT
    /\ calls[i].callbacks = 0
    /\ calls[i].callback.kind = "select"
    /\ selectedPlaceId # calls[i].placeId

\* C9: the fetched-fields set of every cached place holds 'place_id' and
\* only grows, and no place leaves the cache.
C9_FetchedFieldsOnlyGrow ==
  /\ [](\A id \in DOMAIN placeIdsToDetails :
          "place_id" \in placeIdsToDetails[id].fetchedFields)
  /\ [][\A id \in DOMAIN placeIdsToDetails :
          /\ id \in DOMAIN placeIdsToDetails'
          /\ placeIdsToDetails[id].fetchedFields
               \subseteq placeIdsToDetails'[id].fetchedFields]_vars

\* A place's set has grown twice: by the list's fields, then by the rest.
C9_Witness ==
  \E id \in DOMAIN placeIdsToDetails :
    /\ placeIdsToDetails[id].fetchedFields
         = {"place_id"} \cup Range(SelectFields)
    /\ \E i, j \in DOMAIN calls :
         /\ calls[i].placeId = id /\ calls[j].placeId = id
         /\ calls[i].callback.kind = "batch" /\ calls[j].callback.kind = "select"
         /\ calls[i].pc = "done" /\ calls[j].pc = "done"
         /\ Len(calls[j].missingFields) < Len(calls[j].fields)

\* C10: when the service answers every request and every timer fires, each
\* fetchPlaceDetails call comes to its end, callback or drop, whatever the
\* user does meanwhile.
C10_EveryFetchEnds ==
  \A i \in 1..MaxCalls :
    (i \in DOMAIN calls)
      ~> (i \in DOMAIN calls /\ calls[i].pc \in {"done", "dropped"})

\* A selection's fetch waits for a retry while another place is selected.
C10_Witness ==
  \E i \in DOMAIN calls :
    /\ calls[i].pc = "waiting" /\ calls[i].retryCount = MaxRetries
    /\ calls[i].callback.kind = "select"
    /\ selectedPlaceId \notin {calls[i].placeId, Undefined}

\* Calls i and j fetch the price level of one place, the response of j has
\* been merged, and the response of i is merged in this step.  Both requests
\* list price_level, so the later call was made before the earlier response
\* arrived: the two fetches were in flight together.
MergedAfter(i, j) ==
  /\ i # j /\ calls[i].placeId = calls[j].placeId
  /\ "price_level" \in Range(calls[i].missingFields)
  /\ "price_level" \in Range(calls[j].missingFields)
  /\ calls[j].pc = "done" /\ calls[j].status = OK
  /\ Answered(i) /\ calls'[i].status = OK

\* The cached price level is the same before and after this step.
PriceLevelKept(i) ==
  /\ Has(PlaceOfNext(i), "priceLevel") = Has(PlaceOf(i), "priceLevel")
  /\ Has(PlaceOf(i), "priceLevel")
     => PlaceOfNext(i)["priceLevel"] = PlaceOf(i)["priceLevel"]

\* The statement of C11 as the claim has it: of two fetches in flight for one
\* place whose responses both carry a value for an attribute, the response
\* processed last decides the cached attribute; an attribute absent from the
\* later response keeps the earlier value.
C11_LastResponseWins ==
  [][\A i, j \in DOMAIN calls :
       MergedAfter(i, j)
       => IF Has(calls'[i].result, "price_level")
          THEN Has(calls[j].result, "price_level")
               => /\ Has(PlaceOfNext(i), "priceLevel")
                  /\ PlaceOfNext(i)["priceLevel"] = calls'[i].result["price_level"]
          ELSE PriceLevelKept(i)]_vars

\* C11, amended: of two fetches in flight for one place, a truthy value in
\* the response processed last decides the cached attribute, whichever fetch
\* was issued first; an attribute that is absent from the later response, or
\* whose value there is falsy (price level 0), keeps the earlier value.
C11_LastTruthyResponseWins ==
  [][\A i, j \in DOMAIN calls :
       MergedAfter(i, j)
       => IF /\ Has(calls'[i].result, "price_level")
             /\ calls'[i].result["price_level"] # 0
          THEN /\ Has(PlaceOfNext(i), "priceLevel")
               /\ PlaceOfNext(i)["priceLevel"] = calls'[i].result["price_level"]
          ELSE PriceLevelKept(i)]_vars

\* Two fetches of one place were answered with different price levels, and
\* the cache holds the value given to the one that was issued first: its
\* response was processed last.
C11_Witness ==
  \E i, j \in DOMAIN calls :
    /\ i < j /\ calls[i].placeId = calls[j].placeId
    /\ "price_level" \in Range(calls[i].missingFields)
    /\ "price_level" \in Range(calls[j].missingFields)
    /\ calls[i].pc = "done" /\ calls[i].status = OK
    /\ calls[j].pc = "done" /\ calls[j].status = OK
    /\ Has(calls[i].result, "price_level") /\ calls[i].result["price_level"] = 1
    /\ Has(calls[j].result, "price_level") /\ calls[j].result["price_level"] = 2
    /\ Has(PlaceOf(i), "priceLevel") /\ PlaceOf(i)["priceLevel"] = 1

\* A fetch waits for the timer of a rate-limit retry.
RetryPending == \E i \in DOMAIN calls : calls[i].pc = "waiting"

\* A showNextPlaces batch waits for callbacks of its fetches.
BatchPending == \E b \in DOMAIN batches : batches[b].count > 0

\* selectPlaceById(placeId) in the present state selects the place and starts
\* its fetch, which is with the service or has run its callback already.
SelectionProcessed(s0, placeId) ==
  LET s == selectPlaceById(s0, placeId)
      i == Len(calls) + 1
  IN /\ s.sel = placeId
     /\ Len(s.calls) = i
     /\ s.calls[i].placeId = placeId
     /\ s.calls[i].pc \in {"requested", "done"}
     /\ s.calls[i].pc = "done" => s.panel = [display |-> TRUE,
                                             place |-> s.cache[placeId]]

\* The user's selections of another place than the selected one, from a
\* marker, the list and the search box, are all processed.
SelectionsProcessed ==
  /\ \A placeId \in PlaceIds \ {selectedPlaceId} :
       SelectionProcessed(State, placeId)
  /\ \A k \in DOMAIN placeResults :
       placeResults[k] # selectedPlaceId
       => SelectionProcessed(State, placeResults[k])
  /\ \A place \in AutocompletePlaces :
       (Has(place, "place_id") /\ place["place_id"] # selectedPlaceId)
       => SelectionProcessed(
            [State EXCEPT !.ac = (place["place_id"] :> place) @@ @],
            place["place_id"])

\* A click on the Show More button is taken and showNextPlaces runs: it
\* starts a batch or, with no place left, hides the button.
ShowMoreProcessed ==
  /\ ~showMoreButton.disabled
  /\ \A hidden \in BOOLEAN :
       LET s == showNextPlaces(State, ND_NUM_PLACES_SHOW_MORE, hidden)
       IN ~s.button.display \/ Len(s.batches) = Len(batches) + 1

\* The statement of C12 as the claim has it: while a fetch waits for a
\* rate-limit retry, a selection from the list, a marker or the search box,
\* and a click on the Show More button the page shows, are accepted and
\* processed.
C12_RetriesBlockNothing ==
  RetryPending
  => /\ SelectionsProcessed
     /\ showMoreButton.display => ShowMoreProcessed

\* C12, amended: while a fetch waits for a rate-limit retry, a selection from
\* the list, a marker or the search box is accepted and processed; a click on
\* the Show More button the page shows is accepted and processed when no
\* showNextPlaces batch is pending, and the button is disabled while one is,
\* the batch of a waiting fetch included.
C12_RetriesBlockNoSelection ==
  RetryPending
  => /\ SelectionsProcessed
     /\ showMoreButton.display
        => IF BatchPending THEN showMoreButton.disabled ELSE ShowMoreProcessed

\* A selection's fetch waits for its retry while the list shows a place and
\* the Show More button is there to click.
C12_Witness ==
  /\ \E i \in DOMAIN calls :
       calls[i].pc = "waiting" /\ calls[i].callback.kind = "select"
  /\ placeResults # <<>>
  /\ showMoreButton.display /\ ~showMoreButton.disabled

\* The callback of call i runs in this step.
CallbackNow(i) ==
  /\ i \in DOMAIN calls' /\ calls'[i].callbacks = 1
  /\ i \in DOMAIN calls => calls[i].callbacks = 0

\* C13: the cache holds one place object per place id, the object of a
\* configured POI or the one made by the first fetchPlaceDetails call that
\* names the id; an entry is never removed or replaced (the object keeps its
\* properties and its fetched fields, where a new object would have none),
\* and the callback of every fetch of the id is given the cached object.
C13_OnePlaceObjectPerId ==
  /\ [](/\ Range(places) \subseteq DOMAIN placeIdsToDetails
        /\ \A id \in DOMAIN placeIdsToDetails :
             /\ placeIdsToDetails[id].placeId = id
             /\ \/ id \in Range(places)
                \/ \E i \in DOMAIN calls : calls[i].placeId = id)
  /\ [][/\ \A id \in DOMAIN placeIdsToDetails :
             /\ id \in DOMAIN placeIdsToDetails'
             /\ DOMAIN placeIdsToDetails[id] \subseteq DOMAIN placeIdsToDetails'[id]
             /\ placeIdsToDetails[id].fetchedFields
                  \subseteq placeIdsToDetails'[id].fetchedFields
        /\ \A id \in DOMAIN placeIdsToDetails' \ DOMAIN placeIdsToDetails :
             /\ \E i \in DOMAIN calls' : IsNew(i) /\ calls'[i].placeId = id
             /\ \A j \in DOMAIN calls : calls[j].placeId # id
        /\ \A i \in DOMAIN calls' :
             (CallbackNow(i) /\ calls'[i].callback.kind = "select")
             => detailsPanel'.place = placeIdsToDetails'[calls'[i].placeId]]_vars

\* A place that is no configured POI was entered by a first fetch, and the
\* callback of a second fetch of it has been given the cached object.
C13_Witness ==
  \E id \in DOMAIN placeIdsToDetails \ Range(places) :
    \E i, j \in DOMAIN calls :
      /\ i < j /\ calls[i].placeId = id /\ calls[j].placeId = id
      /\ calls[i].pc = "done" /\ calls[i].callbacks = 1
      /\ calls[j].pc = "done" /\ calls[j].callbacks = 1
      /\ detailsPanel.place = placeIdsToDetails[id]
      /\ Range(SelectFields) \subseteq placeIdsToDetails[id].fetchedFields

\* The form's height or weight is no number or is not strictly positive.
InvalidBMIInput ==
  LET height == parseFloat(bmiPage.height)
      weight == parseFloat(bmiPage.weight)
  IN \/ height.nan \/ weight.nan
     \/ ~height.nan /\ height.num <= 0
     \/ ~weight.nan /\ weight.num <= 0

\* C14: calculateBMI with a height or weight that is no number or is not
\* strictly positive shows an alert and writes neither the 'result' nor the
\* 'result-category' element: what they displayed before stays.
C14_InvalidInputAlertsAndAborts ==
  (bmiPage.alert = NoAlert /\ InvalidBMIInput)
  => LET page == calculateBMI(bmiPage)
     IN /\ page.alert = "Please enter valid height and weight."
        /\ page.result = bmiPage.result
        /\ page.category = bmiPage.category

\* Height 0 and weight 70 were submitted after a result had been shown: the
\* alert is open and the earlier result is still displayed.
C14_Witness ==
  /\ bmiPage.height = <<"0">> /\ bmiPage.weight = <<"7", "0">>
  /\ bmiPage.alert # NoAlert
  /\ bmiPage.result.value # <<>>
  /\ bmiPage.category.value = "Normal weight"

\* calculateBMI has run in this step on the form as it stands.
SubmittedBMI ==
  /\ bmiPage.alert = NoAlert /\ bmiPage' # bmiPage
  /\ bmiPage'.gender = bmiPage.gender
  /\ bmiPage'.height = bmiPage.height
  /\ bmiPage'.weight = bmiPage.weight

\* |x| for an integer x.
Abs(x) == IF x < 0 THEN -x ELSE x

\* C15: for a valid height (cm) and weight (kg) the value displayed is
\* weight / (height/100)^2 to two decimals, at most half a hundredth away,
\* and the category displayed for 'male' and for 'female' is the same; height
\* 180 and weight 72.9 give 22.50 and 'Normal weight' for both.
C15_ValueAndCategoryForBothGenders ==
  [][(SubmittedBMI /\ ~InvalidBMIInput)
     => LET height == parseFloat(bmiPage.height)
            weight == parseFloat(bmiPage.weight)
            num == weight.num * height.den * height.den * 10000
            den == weight.den * height.num * height.num
            shown == parseFloat(bmiPage'.result.value)
        IN /\ bmiPage'.result.label = "Your BMI is: "
           /\ ~shown.nan /\ shown.den = 100
           /\ 2 * Abs(shown.num * den - num * 100) <= den
           /\ bmiPage.gender \in {"male", "female"}
              => /\ bmiPage'.category.label = "BMI Category: "
                 /\ bmiPage'.category.value = BMICategory("male", [num |-> num, den |-> den])
                 /\ bmiPage'.category.value = BMICategory("female", [num |-> num, den |-> den])
                 /\ (height.num = 180 * height.den /\ 10 * weight.num = 729 * weight.den)
                    => /\ bmiPage'.result.value = <<"2", "2", ".", "5", "0">>
                       /\ bmiPage'.category.value = "Normal weight"]_vars

\* Height 180 and weight 72.9 are displayed as 22.50, Normal weight, for a
\* woman.
C15_Witness ==
  /\ bmiPage.gender = "female"
  /\ bmiPage.height = <<"1", "8", "0">>
  /\ bmiPage.weight = <<"7", "2", ".", "9">>
  /\ bmiPage.result = [label |-> "Your BMI is: ",
                       value |-> <<"2", "2", ".", "5", "0">>]
  /\ bmiPage.category = [label |-> "BMI Category: ", value |-> "Normal weight"]

\* The day and the hours of entry k of weekday_text, read off the text: the
\* first three letters, and what follows the colon and the blank.
DayOf(k) == SubSeq(weekday_text[k], 1, 3)
HoursOf(k) ==
  SubSeq(weekday_text[k], Len(DayNames[k]) + 3, Len(weekday_text[k]))

\* The last day of the maximal run of equal hours that starts on day a.
RunEnd(a) ==
  CHOOSE b \in a..Len(weekday_text) :
    /\ \A k \in a..b : HoursOf(k) = HoursOf(a)
    /\ b < Len(weekday_text) => HoursOf(b + 1) # HoursOf(a)

RECURSIVE RunsFrom(_)
\* One entry for each maximal run of equal hours from day a on.
RunsFrom(a) ==
  IF a > Len(weekday_text) THEN <<>>
  ELSE LET b == RunEnd(a)
       IN <<[days |-> IF a = b THEN DayOf(a)
                      ELSE DayOf(a) \o <<" ", "-", " ">> \o DayOf(b),
             hours |-> HoursOf(a)]>> \o RunsFrom(b + 1)

\* C16: parseDaysHours renders each maximal run of consecutive days with
\* identical hours as one entry 'First - Last' with those hours, a day that
\* differs from its neighbours as an entry of its own, in the order of the
\* week, and no two adjacent entries of the result have equal hours.
C16_RunsOfEqualHoursCollapsed ==
  [][/\ daysHours' = RunsFrom(1)
     /\ \A k \in 1..(Len(daysHours') - 1) :
          daysHours'[k].hours # daysHours'[k + 1].hours]_vars

\* A week of Mon - Fri, a Saturday of its own, and a closed Sunday.
C16_Witness ==
  /\ Len(weekday_text) = 7
  /\ Len(daysHours) = 3
  /\ daysHours[1].days = <<"M", "o", "n", " ", "-", " ", "F", "r", "i">>
  /\ daysHours[2].days = <<"S", "a", "t">>
  /\ daysHours[3] = [days |-> <<"S", "u", "n">>,
                     hours |-> <<"C", "l", "o", "s", "e", "d">>]

\* C17: every error the browser's geolocation reports (permission denied,
\* position unavailable, timeout and, where the browser has it, unknown
\* error) makes showErr open exactly one alert; errors of different codes
\* give different messages; and the map of the page is not redrawn.
C17_EachErrorItsOwnAlert ==
  (hospitalPage.alert = NoAlert /\ hospitalPage.pending > 0)
  => /\ \A error \in PositionErrors(hospitalPage.geolocation) :
          LET page == showErr(hospitalPage, error)
          IN /\ page.alert # NoAlert
             /\ page.mapsDrawn = hospitalPage.mapsDrawn
             /\ page.center = hospitalPage.center
     /\ \A e1, e2 \in PositionErrors(hospitalPage.geolocation) :
          e1["code"] # e2["code"]
          => showErr(hospitalPage, e1).alert # showErr(hospitalPage, e2).alert

\* The alert of the unknown error is open over a map drawn for an earlier
\* position.
C17_Witness ==
  /\ hospitalPage.alert = "An unknown error occurred."
  /\ hospitalPage.center = "here"
  /\ hospitalPage.mapsDrawn = 2

\* Every fetch a selection has started has run its callback.
SelectionsAnswered ==
  \A i \in DOMAIN calls :
    calls[i].callback.kind = "select" => calls[i].pc = "done"

\* C18: when the details panel is displayed it shows the place whose id is
\* selectedPlaceId, also after a second place was selected while the fetch
\* for the first was in flight, once the responses have arrived, in
\* whichever order.  (A state with no place selected, or with a selection's
\* fetch still on its way or dropped, is not held against the statement.)
C18_PanelShowsSelectedPlace ==
  (detailsPanel.display /\ selectedPlaceId # Undefined /\ SelectionsAnswered)
  => detailsPanel.place.placeId = selectedPlaceId

\* C19: a fetchPlaceDetails call invokes its callback at most once: never
\* before its end, once when it ends with the place (cache hit, autocomplete
\* result, or an OK answer to the first request or to a retry), never when it
\* is dropped, and never again after its end.
C19_CallbackAtMostOnce ==
  /\ [](\A i \in DOMAIN calls :
          /\ calls[i].callbacks <= 1
          /\ calls[i].callbacks = 1 <=> calls[i].pc = "done")
  /\ [][\A i \in DOMAIN calls :
          calls[i].pc \in {"done", "dropped"} => calls'[i] = calls[i]]_vars

\* A fetch was answered OK and its callback has run once, while another
\* fetch was dropped without a callback.
C19_Witness ==
  \E i, j \in DOMAIN calls :
    /\ calls[i].pc = "done" /\ calls[i].status = OK /\ calls[i].callbacks = 1
    /\ calls[j].pc = "dropped" /\ calls[j].callbacks = 0

\* The fetches of batch b whose callback has fired.
FiredOf(b) ==
  {i \in DOMAIN calls :
     /\ calls[i].callback = [kind |-> "batch", batch |-> b]
     /\ calls[i].callbacks = 1}

RECURSIVE RenderedUpTo(_)
\* The places of the first b batches whose fetches' callbacks have all fired.
RenderedUpTo(b) ==
  IF b = 0 THEN <<>>
  ELSE RenderedUpTo(b - 1)
       \o (IF Cardinality(FiredOf(b)) = Len(batches[b].nextPlaces)
           THEN batches[b].nextPlaces ELSE <<>>)

RECURSIVE AdvancedUpTo(_)
\* The sum of n over those batches.
AdvancedUpTo(b) ==
  IF b = 0 THEN 0
  ELSE AdvancedUpTo(b - 1)
       + (IF Cardinality(FiredOf(b)) = Len(batches[b].nextPlaces)
          THEN batches[b].n ELSE 0)

\* C20: the places of a showNextPlaces batch are rendered, and
\* nextPlaceIndex is advanced by n, once, when the callback of every fetch
\* of the batch has fired and not before; until then the Show More button is
\* disabled, so that no batch starts while one is pending, and no place is
\* rendered twice.
C20_BatchRenderedOnceWhenComplete ==
  /\ [](/\ placeResults = RenderedUpTo(Len(batches))
        /\ nextPlaceIndex = AdvancedUpTo(Len(batches))
        /\ Cardinality(Range(placeResults)) = Len(placeResults)
        /\ \A b \in DOMAIN batches :
             /\ batches[b].count
                  = Len(batches[b].nextPlaces) - Cardinality(FiredOf(b))
             /\ batches[b].count > 0 => showMoreButton.disabled)
  /\ [][Len(batches') > Len(batches)
        => \A b \in DOMAIN batches : batches[b].count = 0]_vars

\* The second batch has been rendered after the first, whose five fetches
\* were all answered.
C20_Witness ==
  /\ Len(batches) = 2
  /\ batches[1].count = 0 /\ Len(batches[1].nextPlaces) = 5
  /\ batches[2].count = 0
  /\ placeResults = BatchPois
  /\ nextPlaceIndex = 10

\* Call i is made in this step for a place that has a stored autocomplete
\* result, and not all of its fields are fetched.
NewWithAutocompleteResult(i) ==
  /\ IsNew(i)
  /\ calls'[i].placeId \in DOMAIN placeIdsToAutocompleteResults'
  /\ ~(Range(calls'[i].fields) \subseteq FetchedBefore(calls'[i].placeId))

\* C21: a fetchPlaceDetails call for a place with a stored autocomplete
\* result and a field not yet fetched sends no request to the places
\* service: the autocomplete result is merged as an OK response, every
\* missing field is marked fetched, with or without a value in the result,
\* and the callback runs in the same task.
C21_AutocompleteShortcut ==
  [][\A i \in DOMAIN calls' :
       NewWithAutocompleteResult(i)
       => LET id == calls'[i].placeId
              result == placeIdsToAutocompleteResults'[id]
              place == placeIdsToDetails'[id]
          IN /\ \A j \in DOMAIN calls' : ~Sends(j)
             /\ calls'[i].pc = "done" /\ calls'[i].status = OK
             /\ calls'[i].result = result
             /\ calls'[i].callbacks = 1
             /\ place.fetchedFields
                  = FetchedBefore(id) \cup Range(calls'[i].fields)
             /\ (Has(result, "price_level") /\ result["price_level"] # 0)
                => /\ Has(place, "priceLevel")
                   /\ place["priceLevel"] = result["price_level"]
             /\ calls'[i].callback.kind = "select"
                => detailsPanel' = [display |-> TRUE, place |-> place]]_vars

\* A selection was answered from the autocomplete result: the place's name
\* is marked fetched although the result gave none.
C21_Witness ==
  \E i \in DOMAIN calls :
    /\ calls[i].pc = "done" /\ calls[i].status = OK /\ calls[i].callbacks = 1
    /\ calls[i].placeId \in DOMAIN placeIdsToAutocompleteResults
    /\ calls[i].result = placeIdsToAutocompleteResults[calls[i].placeId]
    /\ "name" \in PlaceOf(i).fetchedFields /\ ~Has(PlaceOf(i), "name")
    /\ Has(PlaceOf(i), "priceLevel")
    /\ detailsPanel = [display |-> TRUE, place |-> PlaceOf(i)]

\* selectPlaceById(selectedPlaceId) leaves the widget as it is: no closure
\* is made, no request sent, panel and marker stay.
ReselectionChangesNothing == selectPlaceById(State, selectedPlaceId) = State

\* This step is the back button's: the panel is hidden, the marker taken
\* off the map, and nothing else changes.
BackButtonStep ==
  /\ detailsPanel.display
  /\ detailsPanel' = [detailsPanel EXCEPT !.display = FALSE]
  /\ selectedPlaceMarker' = [selectedPlaceMarker EXCEPT !.map = FALSE]
  /\ UNCHANGED <<placeIdsToDetails, placeIdsToAutocompleteResults, calls,
                 batches, showMoreButton, placeResults, nextPlaceIndex>>

\* This step is selectPlaceById(undefined), as the search box calls it for
\* a text that is no prediction: only selectedPlaceId changes.
TextSearchStep ==
  UNCHANGED <<placeIdsToDetails, placeIdsToAutocompleteResults, calls,
              batches, detailsPanel, selectedPlaceMarker, showMoreButton,
              placeResults, nextPlaceIndex>>

\* The statement of C22 as the claim has it: selectPlaceById(p) with
\* selectedPlaceId = p changes nothing, and selectedPlaceId is reset only by
\* the back button of the details panel.
C22_ReselectionNoOpResetByBackButton ==
  /\ []ReselectionChangesNothing
  /\ [][(selectedPlaceId # Undefined /\ selectedPlaceId' = Undefined)
        => BackButtonStep]_vars

\* C22, amended: selectPlaceById(p) with selectedPlaceId = p changes
\* nothing: no fetch, panel and marker untouched, also when the earlier fetch
\* for p was dropped and the panel for p never shown.  selectedPlaceId is
\* reset by the back button of the details panel and by a search for a text
\* without a place id, which leaves the panel as it is.
C22_ReselectionChangesNothing ==
  /\ []ReselectionChangesNothing
  /\ [][(selectedPlaceId # Undefined /\ selectedPlaceId' = Undefined)
        => BackButtonStep \/ TextSearchStep]_vars

\* The fetch of the selected place was dropped and the panel does not show
\* the place.
C22_Witness ==
  /\ selectedPlaceId # Undefined
  /\ detailsPanel.place.placeId # selectedPlaceId
  /\ \E i \in DOMAIN calls :
       /\ calls[i].callback.kind = "select"
       /\ calls[i].placeId = selectedPlaceId
       /\ calls[i].pc = "dropped"
  /\ \A i \in DOMAIN calls :
       calls[i].placeId = selectedPlaceId => calls[i].pc = "dropped"

\* The order of the categories.
CategoryRank(category) ==
  IF category = "Underweight" THEN 1
  ELSE IF category = "Normal weight" THEN 2
  ELSE IF category = "Overweight" THEN 3
  ELSE 4

\* What calculateBMI displays for the form's gender with the given height
\* and weight.
DisplayedFor(height, weight) ==
  calculateBMI([bmiPage EXCEPT !.height = height, !.weight = weight,
                               !.alert = NoAlert])

\* C23: for two valid inputs of one gender, 'male' or 'female', the input
\* with the larger BMI, as displayed, is not given a lower category in the
\* order Underweight < Normal weight < Overweight < Obese: the result the
\* page displays for its form is in that order with the result of every
\* other input.
C23_CategoryMonotoneInBMI ==
  (/\ bmiPage.gender \in {"male", "female"}
   /\ bmiPage.result.value # <<>>
   /\ bmiPage = DisplayedFor(bmiPage.height, bmiPage.weight))
  => \A height \in HeightTexts, weight \in WeightTexts :
       LET other == DisplayedFor(height, weight)
           shown == parseFloat(bmiPage.result.value).num
           otherShown == parseFloat(other.result.value).num
       IN other.alert = NoAlert
          => /\ shown < otherShown
                => CategoryRank(bmiPage.category.value)
                     <= CategoryRank(other.category.value)
             /\ otherShown < shown
                => CategoryRank(other.category.value)
                     <= CategoryRank(bmiPage.category.value)

====
